---- MODULE Spec2Model ----
(***************************************************************************)
(* Model of the TLA+ completion provider of vscode-tlaplus                 *)
(* (src/completions/tlaCompletions.ts): the catalog tables, the lexical    *)
(* classification done by provideCompletionItems over the text before the  *)
(* cursor, and the completion items it hands out.                          *)
(*                                                                         *)
(* Text is modelled by TLA+ strings; a character is a string of length 1.  *)
(* An optional value (a field that may be undefined) is a sequence of      *)
(* length at most one.  Completion items are objects: the response holds   *)
(* references to them, either into the module-level catalog arrays or into *)
(* the heap of items allocated by a request.                               *)
(***************************************************************************)
EXTENDS Integers, Sequences, FiniteSets, TLC

VARIABLES
    lineText,   \* text of the document line under the cursor
    position,   \* cursor: [line, character]
    docInfo,    \* docInfos.get(document.uri): [symbols, plusCal]
    catalog,    \* the module-level *_ITEMS arrays of CompletionItem objects
    heap,       \* CompletionItem objects allocated by requests
    response,   \* the CompletionList returned by the last request, if any
    enableUnicodeAutocomplete,  \* the setting as read when the module was loaded
    chosen,     \* the item the editor is about to accept, if any
    call,       \* the last resolve call: function, flag, item before the call
    resolves,   \* number of resolve calls made
    configuration,  \* the setting tlaplus.unicode.autocomplete as it is now
    provider,   \* the registered provider instance: the value the setting had
                \* when it was constructed, and whether it has resolved an item
    served      \* the requests served so far, each with the list returned and
                \* its items as they were when the list was returned

vars == <<lineText, position, docInfo, catalog, heap, response,
          enableUnicodeAutocomplete, chosen, call, resolves,
          configuration, provider, served>>

None == <<>>
Some(x) == <<x>>
IsSome(o) == Len(o) = 1
Get(o) == o[1]

-----------------------------------------------------------------------------
(* Bounds of the model *)

MaxTail == 2        \* free characters typed after the head of the line
MaxSymbols == 2     \* symbols of the document
MaxLine == 1        \* largest line number of the cursor
MaxResolves == 2    \* resolve calls made on the chosen item
MaxRequests == 2    \* requests served in one session

-----------------------------------------------------------------------------
(* Characters and the regular-expression character classes *)

Letters ==
    {"a","b","c","d","e","f","g","h","i","j","k","l","m",
     "n","o","p","q","r","s","t","u","v","w","x","y","z",
     "A","B","C","D","E","F","G","H","I","J","K","L","M",
     "N","O","P","Q","R","S","T","U","V","W","X","Y","Z"}
Digits == {"0","1","2","3","4","5","6","7","8","9"}
WordChars == Letters \cup Digits \cup {"_"}          \* \w
WhiteSpace == {" ", "\t", "\n", "\r", "\f"}          \* \s
LineTerminators == {"\n", "\r"}                      \* not matched by .
StepChars == {"<", ">", "."} \cup Digits \cup Letters \* [<>\d.a-zA-Z]

CharAt(s, i) == SubSeq(s, i, i)
AllIn(s, i, j, class) == \A k \in i..j : CharAt(s, k) \in class

substring(s, from, to) ==
    LET n == Len(s)
        a == IF from > n THEN n ELSE from
        b == IF to > n THEN n ELSE to
    IN  IF a <= b THEN SubSeq(s, a + 1, b) ELSE SubSeq(s, b + 1, a)

startsWith(s, p) == Len(s) >= Len(p) /\ SubSeq(s, 1, Len(p)) = p

-----------------------------------------------------------------------------
(* The catalog tables *)

TLA_OPERATORS == <<
    "land", "lor", "implies",
    "lnot", "equiv", "triangleq",
    "in", "notin", "ne",
    "ll", "gg", "[]",
    "leq", "geq", "<>",
    "~>", "prec", "succ",
    "-+->", "preceq", "succeq",
    "div", "subseteq", "supseteq",
    "cdot", "subset", "supset",
    "o", "sqsubset", "sqsupset",
    "bullet", "sqsubseteq", "sqsupseteq",
    "star", "vdash", "dashv",
    "bigcirc", "models", "vDash",
    "sim", "maps", "leftarrow",
    "simeq", "cap", "cup",
    "asymp", "sqcap", "sqcup",
    "approx", "oplus", "uplus",
    "cong", "ominus", "X",
    "doteq", "odot", "wr",
    "otimes", "propto", "oslash",
    "E", "A", "EE", "AA" >>

\* new Map([[name, glyph], ...]).  A glyph outside ASCII is written by its code
\* point, Uxxxx, which stands for that one character.
TLA_UNICODE_OPERATORS == <<
    <<"land", "U2227">>, <<"lor", "U2228">>, <<"implies", "U21D2">>,
    <<"lnot", "U00AC">>, <<"equiv", "U2261">>, <<"triangleq", "U225C">>,
    <<"in", "U2208">>, <<"notin", "U2209">>, <<"ne", "U2260">>,
    <<"ll", "U226A">>, <<"gg", "U226B">>, <<"[]", "U25A1">>,
    <<"leq", "U2264">>, <<"geq", "U2265">>, <<"<>", "U25CA">>,
    <<"~>", "U219D">>, <<"prec", "U227A">>, <<"succ", "U227B">>,
    <<"-+->", "U21F8">>, <<"preceq", "U2AAF">>, <<"succeq", "U2AB0">>,
    <<"div", "U00F7">>, <<"subseteq", "U2286">>, <<"supseteq", "U2287">>,
    <<"cdot", "U00B7">>, <<"subset", "U2282">>, <<"supset", "U2283">>,
    <<"o", "U25CB">>, <<"sqsubset", "U228F">>, <<"sqsupset", "U2290">>,
    <<"bullet", "U2022">>, <<"sqsubseteq", "U2291">>, <<"sqsupseteq", "U2292">>,
    <<"star", "U22C6">>, <<"vdash", "U22A2">>, <<"dashv", "U22A3">>,
    <<"bigcirc", "U25EF">>, <<"models", "U22A8">>, <<"vDash", "=|">>,
    <<"sim", "U223C">>, <<"maps", "U2192">>, <<"leftarrow", "U2190">>,
    <<"simeq", "U2243">>, <<"cap", "U2229">>, <<"cup", "U222A">>,
    <<"asymp", "U224D">>, <<"sqcap", "U2293">>, <<"sqcup", "U2294">>,
    <<"approx", "U2248">>, <<"oplus", "U2295">>, <<"uplus", "U228E">>,
    <<"cong", "U2245">>, <<"ominus", "U2296">>, <<"X", "U00D7">>,
    <<"doteq", "U2250">>, <<"odot", "U2299">>, <<"wr", "U2240">>,
    <<"otimes", "U2297">>, <<"propto", "U221D">>, <<"oslash", "U2298">>,
    <<"E", "U2203">>, <<"A", "U2200">>, <<"EE", "U2203">>,
    <<"AA", "U2200">>, <<"times", "U00D7">>, <<"circ", "U2218">>,
    <<"intersect", "U2229">>, <<"union", "U222A">> >>

TLA_STARTING_KEYWORDS == <<
    "EXTENDS", "VARIABLE", "VARIABLES", "CONSTANT", "CONSTANTS", "ASSUME",
    "ASSUMPTION", "AXIOM", "THEOREM", "PROOF", "LEMMA", "PROPOSITION",
    "COROLLARY", "RECURSIVE" >>

TLA_PROOF_STARTING_KEYWORDS == <<
    "DEFINE", "QED", "HIDE", "SUFFICES", "PICK", "HAVE", "TAKE", "WITNESS" >>

TLA_OTHER_KEYWORDS == <<
    "LET", "IN", "EXCEPT", "ENABLED", "UNCHANGED", "LAMBDA", "DOMAIN",
    "CHOOSE", "LOCAL", "INSTANCE", "WITH", "SUBSET", "UNION", "SF_", "WF_",
    "USE", "BY", "DEF", "DEFS", "PROVE", "OBVIOUS", "NEW", "ACTION",
    "OMITTED", "ONLY", "STATE", "TEMPORAL",
    "IF", "THEN", "ELSE", "CASE", "OTHER",
    "BOOLEAN" >>

TLA_CONSTANTS == << "TRUE", "FALSE" >>

TLA_STD_MODULES == <<
    "Bags", "FiniteSets", "Integers", "Naturals", "Randomization", "Reals",
    "RealTime", "Sequences", "TLC" >>

-----------------------------------------------------------------------------
(* Completion items and references to them *)

CompletionItem(label, kind) ==
    [label |-> label, kind |-> kind, insertText |-> None, range |-> None]

Range(start, end) == [start |-> start, end |-> end]

Position(line, character) == [line |-> line, character |-> character]

CompletionList(items, isIncomplete) ==
    [items |-> items, isIncomplete |-> isIncomplete]

MapSeq(s, F(_)) == [i \in 1..Len(s) |-> F(s[i])]

KeywordItem(w) == CompletionItem(w, "Keyword")
ConstItem(w) == CompletionItem(w, "Constant")
OperatorItem(w) == CompletionItem("\\" \o w, "Operator")
ModuleItem(m) == CompletionItem(m, "Module")

TLA_STARTING_KEYWORD_ITEMS == MapSeq(TLA_STARTING_KEYWORDS, KeywordItem)
TLA_PROOF_STARTING_KEYWORD_ITEMS == MapSeq(TLA_PROOF_STARTING_KEYWORDS, KeywordItem)
TLA_OTHER_KEYWORD_ITEMS == MapSeq(TLA_OTHER_KEYWORDS, KeywordItem)
TLA_CONST_ITEMS == MapSeq(TLA_CONSTANTS, ConstItem)
TLA_OPERATOR_ITEMS == MapSeq(TLA_OPERATORS, OperatorItem)
TLA_STD_MODULE_ITEMS == MapSeq(TLA_STD_MODULES, ModuleItem)

\* The arrays as they are when the module has been loaded.
CatalogInit ==
    [TLA_STARTING_KEYWORD_ITEMS |-> TLA_STARTING_KEYWORD_ITEMS,
     TLA_PROOF_STARTING_KEYWORD_ITEMS |-> TLA_PROOF_STARTING_KEYWORD_ITEMS,
     TLA_OTHER_KEYWORD_ITEMS |-> TLA_OTHER_KEYWORD_ITEMS,
     TLA_CONST_ITEMS |-> TLA_CONST_ITEMS,
     TLA_OPERATOR_ITEMS |-> TLA_OPERATOR_ITEMS,
     TLA_STD_MODULE_ITEMS |-> TLA_STD_MODULE_ITEMS]

\* A reference to the index-th object of a catalog array or of the heap.
Ref(array, index) == [array |-> array, index |-> index]
RefsOf(array) == [i \in 1..Len(CatalogInit[array]) |-> Ref(array, i)]
HeapRefs(base, n) == [i \in 1..n |-> Ref("heap", base + i)]

Deref(r) == IF r.array = "heap" THEN heap[r.index] ELSE catalog[r.array][r.index]

\* Variant: the constants are not concatenated
TLA_INNER_ITEMS_keywordsOnly == RefsOf("TLA_OTHER_KEYWORD_ITEMS")

\* TLA_OTHER_KEYWORD_ITEMS.concat(TLA_CONST_ITEMS): a new array of the same objects
TLA_INNER_ITEMS == RefsOf("TLA_OTHER_KEYWORD_ITEMS") \o RefsOf("TLA_CONST_ITEMS")

-----------------------------------------------------------------------------
(* The text before the cursor and the patterns tested on it *)

getPrevText(text, pos) ==
    IF pos.character = 0 THEN "" ELSE substring(text, 0, pos.character)

\* Variant: no look-behind, the backslash of /\ counts too
isOperator_noLookBehind(prevText) ==
    LET n == Len(prevText) IN
    \E i \in 1..n :
        /\ CharAt(prevText, i) = "\\"
        /\ AllIn(prevText, i + 1, n, WordChars)
        /\ \A k \in 1..(i - 1) : CharAt(prevText, k) \notin LineTerminators

\* Variant: no end anchor, anything may follow the word characters
isOperator_unanchored(prevText) ==
    LET n == Len(prevText) IN
    \E i \in 1..n :
        /\ CharAt(prevText, i) = "\\"
        /\ i > 1 => CharAt(prevText, i - 1) # "/"
        /\ \A k \in 1..(i - 1) : CharAt(prevText, k) \notin LineTerminators

\* Variant: only letters, not all word characters, may follow the backslash
isOperator_lettersOnly(prevText) ==
    LET n == Len(prevText) IN
    \E i \in 1..n :
        /\ CharAt(prevText, i) = "\\"
        /\ AllIn(prevText, i + 1, n, Letters)
        /\ i > 1 => CharAt(prevText, i - 1) # "/"
        /\ \A k \in 1..(i - 1) : CharAt(prevText, k) \notin LineTerminators

\* /^.*(?<!\/)\\\w*$/ : some backslash that no '/' precedes is followed by
\* word characters only up to the end; everything before it is matched by .*
isOperator(prevText) ==
    LET n == Len(prevText) IN
    \E i \in 1..n :
        /\ CharAt(prevText, i) = "\\"
        /\ AllIn(prevText, i + 1, n, WordChars)
        /\ i > 1 => CharAt(prevText, i - 1) # "/"
        /\ \A k \in 1..(i - 1) : CharAt(prevText, k) \notin LineTerminators

\* prevText.match(/\\(\w*)$/): the index of the leftmost match, 0 for null
operatorMatch(prevText) ==
    LET n == Len(prevText)
        M == {i \in 1..n : CharAt(prevText, i) = "\\" /\ AllIn(prevText, i + 1, n, WordChars)}
    IN  IF M = {} THEN 0 ELSE CHOOSE i \in M : \A j \in M : i <= j

\* match[0], the matched text
matchedText(prevText) == SubSeq(prevText, operatorMatch(prevText), Len(prevText))

\* Variant: the column of the first captured word character
backslashCol_wordOnly(prevText) ==
    Len(prevText) - (Len(matchedText(prevText)) - 1)

backslashCol(prevText) == Len(prevText) - Len(matchedText(prevText))

\* Variant: no letters in the step number, /^\s*<\d+>[<>\d.]*\s+[a-zA-Z]*$/
isProofStep_noLetters(prevText) ==
    LET n == Len(prevText) IN
    \E a \in 0..n :
        /\ AllIn(prevText, 1, a, WhiteSpace)
        /\ a + 1 <= n
        /\ CharAt(prevText, a + 1) = "<"
        /\ \E b \in (a + 2)..n :
            /\ AllIn(prevText, a + 2, b, Digits)
            /\ b + 1 <= n
            /\ CharAt(prevText, b + 1) = ">"
            /\ \E c \in (b + 1)..n :
                /\ AllIn(prevText, b + 2, c, {"<", ">", "."} \cup Digits)
                /\ \E d \in (c + 1)..n :
                    /\ AllIn(prevText, c + 1, d, WhiteSpace)
                    /\ AllIn(prevText, d + 1, n, Letters)

\* Variant: no whitespace is needed after the step number, \s* for \s+
isProofStep_noSpaceNeeded(prevText) ==
    LET n == Len(prevText) IN
    \E a \in 0..n :
        /\ AllIn(prevText, 1, a, WhiteSpace)
        /\ a + 1 <= n
        /\ CharAt(prevText, a + 1) = "<"
        /\ \E b \in (a + 2)..n :
            /\ AllIn(prevText, a + 2, b, Digits)
            /\ b + 1 <= n
            /\ CharAt(prevText, b + 1) = ">"
            /\ \E c \in (b + 1)..n :
                /\ AllIn(prevText, b + 2, c, StepChars)
                /\ \E d \in c..n :
                    /\ AllIn(prevText, c + 1, d, WhiteSpace)
                    /\ AllIn(prevText, d + 1, n, Letters)

\* /^\s*<\d+>[<>\d.a-zA-Z]*\s+[a-zA-Z]*$/
isProofStep(prevText) ==
    LET n == Len(prevText) IN
    \E a \in 0..n :
        /\ AllIn(prevText, 1, a, WhiteSpace)
        /\ a + 1 <= n
        /\ CharAt(prevText, a + 1) = "<"
        /\ \E b \in (a + 2)..n :
            /\ AllIn(prevText, a + 2, b, Digits)
            /\ b + 1 <= n
            /\ CharAt(prevText, b + 1) = ">"
            /\ \E c \in (b + 1)..n :
                /\ AllIn(prevText, b + 2, c, StepChars)
                /\ \E d \in (c + 1)..n :
                    /\ AllIn(prevText, c + 1, d, WhiteSpace)
                    /\ AllIn(prevText, d + 1, n, Letters)

\* Variant: at least one letter is needed, /^\s*[a-zA-Z]+$/
isNewLine_needsLetter(prevText) ==
    LET n == Len(prevText) IN
    \E a \in 0..(n - 1) :
        /\ AllIn(prevText, 1, a, WhiteSpace)
        /\ AllIn(prevText, a + 1, n, Letters)

\* Variant: the pattern is not anchored at the start, /\s*[a-zA-Z]*$/
isNewLine_unanchored(prevText) ==
    LET n == Len(prevText) IN
    \E a \in 0..n : AllIn(prevText, a + 1, n, Letters)

\* Variant: no leading whitespace allowed, /^[a-zA-Z]*$/
isNewLine_noIndent(prevText) == AllIn(prevText, 1, Len(prevText), Letters)

\* /^\s*[a-zA-Z]*$/
isNewLine(prevText) ==
    LET n == Len(prevText) IN
    \E a \in 0..n :
        /\ AllIn(prevText, 1, a, WhiteSpace)
        /\ AllIn(prevText, a + 1, n, Letters)

-----------------------------------------------------------------------------
(* The symbols of the document *)

SymbolKind ==
    {"File", "Module", "Namespace", "Package", "Class", "Method", "Property",
     "Field", "Constructor", "Enum", "Interface", "Function", "Variable",
     "Constant", "String", "Number", "Boolean", "Array", "Object", "Key",
     "Null", "EnumMember", "Struct", "Event", "Operator", "TypeParameter"}

\* Variant: the Namespace case is missing
mapKind_noNamespace(symbolKind) ==
    CASE symbolKind = "Field" -> "Field"
      [] symbolKind = "Variable" -> "Variable"
      [] symbolKind = "Function" -> "Function"
      [] symbolKind = "Method" -> "Method"
      [] symbolKind = "Module" -> "Module"
      [] symbolKind = "Constant" -> "Constant"
      [] OTHER -> "Text"

\* Variant: an Operator symbol is given the Operator completion kind
mapKind_operatorCase(symbolKind) ==
    CASE symbolKind = "Field" -> "Field"
      [] symbolKind = "Variable" -> "Variable"
      [] symbolKind = "Function" -> "Function"
      [] symbolKind = "Method" -> "Method"
      [] symbolKind \in {"Namespace", "Module"} -> "Module"
      [] symbolKind = "Constant" -> "Constant"
      [] symbolKind = "Operator" -> "Operator"
      [] OTHER -> "Text"

mapKind(symbolKind) ==
    CASE symbolKind = "Field" -> "Field"
      [] symbolKind = "Variable" -> "Variable"
      [] symbolKind = "Function" -> "Function"
      [] symbolKind = "Method" -> "Method"
      [] symbolKind \in {"Namespace", "Module"} -> "Module"
      [] symbolKind = "Constant" -> "Constant"
      [] OTHER -> "Text"

SymbolItem(sym) == CompletionItem(sym.name, mapKind(sym.kind))

\* docInfo.symbols || []
symbolsOf(info) == IF IsSome(info.symbols) THEN Get(info.symbols) ELSE <<>>

\* Variant: a symbol equal to an earlier one gives no item
symbolInfos_deduplicated(info) ==
    LET s == symbolsOf(info)
        keep == {i \in 1..Len(s) : \A j \in 1..(i - 1) : s[j] # s[i]}
        nth(k) == CHOOSE i \in keep : Cardinality({j \in keep : j <= i}) = k
    IN  [k \in 1..Cardinality(keep) |-> SymbolItem(s[nth(k)])]

\* symbols.map(s => new vscode.CompletionItem(s.name, mapKind(s.kind)))
symbolInfos(info) == MapSeq(symbolsOf(info), SymbolItem)

-----------------------------------------------------------------------------
(* provideCompletionItems: the list for a request and the items it allocates *)

\* The result of a request whose new objects go to the heap after `base`
\* objects: the array of references returned, the objects allocated, and the
\* second argument of new vscode.CompletionList(..., false).
Result(items, alloc) == [items |-> items, alloc |-> alloc, isIncomplete |-> FALSE]

\* Variant: the keyword counts only when a space follows it
isModuleImport_needsSpace(prevText) == startsWith(prevText, "EXTENDS ")

isModuleImport(prevText) == startsWith(prevText, "EXTENDS")

\* Variant: RECURSIVE is not treated as a declaration keyword
isDeclaration_constantOnly(prevText) == startsWith(prevText, "CONSTANT")

isDeclaration(prevText) ==
    startsWith(prevText, "CONSTANT") \/ startsWith(prevText, "RECURSIVE")

\* new vscode.Range(new vscode.Position(position.line, backslashCol), position)
operatorRange(prevText, pos) ==
    Range(Position(pos.line, backslashCol(prevText)), pos)

\* TLA_OPERATORS.map(op => { item = new CompletionItem('\\' + op, Operator);
\*                           item.range = range; return item; })
operatorItems(range) ==
    [i \in 1..Len(TLA_OPERATORS) |->
        [OperatorItem(TLA_OPERATORS[i]) EXCEPT !.range = Some(range)]]

\* Variant: the operator list is returned as incomplete
operatorCompletions_incomplete(prevText, pos, base) ==
    [items |-> HeapRefs(base, Len(TLA_OPERATORS)),
     alloc |-> operatorItems(operatorRange(prevText, pos)),
     isIncomplete |-> TRUE]

\* Variant: the items made by the first operator request are handed out again
operatorCompletions_sharedItems(prevText, pos, base) ==
    IF operatorMatch(prevText) # 0
    THEN IF \E k \in 1..Len(heap) : heap[k].kind = "Operator"
         THEN LET first == CHOOSE k \in 1..Len(heap) :
                            /\ heap[k].kind = "Operator"
                            /\ \A j \in 1..(k - 1) : heap[j].kind # "Operator"
              IN  Result(HeapRefs(first - 1, Len(TLA_OPERATORS)), <<>>)
         ELSE Result(HeapRefs(base, Len(TLA_OPERATORS)),
                     operatorItems(operatorRange(prevText, pos)))
    ELSE Result(RefsOf("TLA_OPERATOR_ITEMS"), <<>>)

operatorCompletions(prevText, pos, base) ==
    IF operatorMatch(prevText) # 0
    THEN Result(HeapRefs(base, Len(TLA_OPERATORS)),
                operatorItems(operatorRange(prevText, pos)))
    ELSE Result(RefsOf("TLA_OPERATOR_ITEMS"), <<>>)

\* Variant: the new-line branch adds the general keywords a second time
lineStartItems_wrongArray(prevText, info) ==
    IF ~info.plusCal
    THEN IF isProofStep(prevText) THEN RefsOf("TLA_PROOF_STARTING_KEYWORD_ITEMS")
         ELSE IF isNewLine(prevText) THEN RefsOf("TLA_OTHER_KEYWORD_ITEMS")
         ELSE <<>>
    ELSE <<>>

\* Variant: the sub-block test is left out
lineStartItems_ignoresSubBlock(prevText, info) ==
    IF isProofStep(prevText) THEN RefsOf("TLA_PROOF_STARTING_KEYWORD_ITEMS")
    ELSE IF isNewLine(prevText) THEN RefsOf("TLA_STARTING_KEYWORD_ITEMS")
    ELSE <<>>

\* The keyword items added to the inner items and the symbols
lineStartItems(prevText, info) ==
    IF ~info.plusCal
    THEN IF isProofStep(prevText) THEN RefsOf("TLA_PROOF_STARTING_KEYWORD_ITEMS")
         ELSE IF isNewLine(prevText) THEN RefsOf("TLA_STARTING_KEYWORD_ITEMS")
         ELSE <<>>
    ELSE <<>>

\* Variant: the line-start keywords are put in front of the other items
generalCompletions_keywordsFirst(prevText, info, base) ==
    LET infos == symbolInfos(info)
        items == TLA_INNER_ITEMS \o HeapRefs(base, Len(infos))
    IN  Result(lineStartItems(prevText, info) \o items, infos)

generalCompletions(prevText, info, base) ==
    LET infos == symbolInfos(info)
        items == TLA_INNER_ITEMS \o HeapRefs(base, Len(infos))
    IN  Result(items \o lineStartItems(prevText, info), infos)

\* Variant: the operator pattern is tested before the two keyword tests
completionsFor_operatorFirst(prevText, pos, info, base) ==
    IF isOperator(prevText) THEN operatorCompletions(prevText, pos, base)
    ELSE IF isModuleImport(prevText) THEN Result(RefsOf("TLA_STD_MODULE_ITEMS"), <<>>)
    ELSE IF isDeclaration(prevText) THEN Result(<<>>, <<>>)
    ELSE generalCompletions(prevText, info, base)

completionsFor(prevText, pos, info, base) ==
    IF isModuleImport(prevText) THEN Result(RefsOf("TLA_STD_MODULE_ITEMS"), <<>>)
    ELSE IF isDeclaration(prevText) THEN Result(<<>>, <<>>)
    ELSE IF isOperator(prevText) THEN operatorCompletions(prevText, pos, base)
    ELSE generalCompletions(prevText, info, base)

-----------------------------------------------------------------------------
(* Resolving the chosen item *)

\* TLA_UNICODE_OPERATORS.get(name): the value of the last entry with the key
unicodeGet(name) ==
    LET M == {i \in 1..Len(TLA_UNICODE_OPERATORS) : TLA_UNICODE_OPERATORS[i][1] = name}
    IN  IF M = {} THEN None
        ELSE Some(TLA_UNICODE_OPERATORS[CHOOSE i \in M : \A j \in M : j <= i][2])

\* Variant: no space is appended
operatorInsertText_noSpace(label, useUnicode) ==
    LET operatorName == substring(label, 1, Len(label))
        unicodeSymbol == unicodeGet(operatorName)
    IN  IF useUnicode /\ IsSome(unicodeSymbol) /\ Get(unicodeSymbol) # ""
        THEN Get(unicodeSymbol)
        ELSE "\\" \o operatorName

\* Variant: the fallback is the bare name, without the backslash
operatorInsertText_bareFallback(label, useUnicode) ==
    LET operatorName == substring(label, 1, Len(label))
        unicodeSymbol == unicodeGet(operatorName)
    IN  (IF useUnicode /\ IsSome(unicodeSymbol) /\ Get(unicodeSymbol) # ""
         THEN Get(unicodeSymbol)
         ELSE operatorName) \o " "

\* Variant: the marker is not stripped before the lookup, substring(0)
operatorInsertText_keepsMarker(label, useUnicode) ==
    LET operatorName == substring(label, 0, Len(label))
        unicodeSymbol == unicodeGet(operatorName)
    IN  (IF useUnicode /\ IsSome(unicodeSymbol) /\ Get(unicodeSymbol) # ""
         THEN Get(unicodeSymbol)
         ELSE "\\" \o operatorName) \o " "

\* (useUnicode && unicodeSymbol ? unicodeSymbol : '\\' + operatorName) + ' '
\* with operatorName = label.substring(1)
operatorInsertText(label, useUnicode) ==
    LET operatorName == substring(label, 1, Len(label))
        unicodeSymbol == unicodeGet(operatorName)
    IN  (IF useUnicode /\ IsSome(unicodeSymbol) /\ Get(unicodeSymbol) # ""
         THEN Get(unicodeSymbol)
         ELSE "\\" \o operatorName) \o " "

\* Variant: a new item is built from the label and returned
resolvedOperator_rebuilds(item, useUnicode) ==
    [CompletionItem(item.label, item.kind) EXCEPT
        !.insertText = Some(operatorInsertText(item.label, useUnicode))]

\* The item as resolveOperatorCompletion(item, useUnicode) leaves it
resolvedOperator(item, useUnicode) ==
    [item EXCEPT !.insertText = Some(operatorInsertText(item.label, useUnicode))]

\* Variant: the space is appended to the text the item already has
resolvedItem_appends(item, useUnicode) ==
    CASE item.kind = "Keyword" ->
            [item EXCEPT !.insertText =
                Some((IF IsSome(item.insertText) THEN Get(item.insertText)
                      ELSE item.label) \o " ")]
      [] item.kind = "Operator" -> resolvedOperator(item, useUnicode)
      [] OTHER -> item

\* Variant: no break after the Keyword case, which falls into the next case
resolvedItem_fallThrough(item, useUnicode) ==
    CASE item.kind \in {"Keyword", "Operator"} -> resolvedOperator(item, useUnicode)
      [] OTHER -> item

\* The item as resolveCompletionItem(item) leaves it when the captured
\* setting is useUnicode
resolvedItem(item, useUnicode) ==
    CASE item.kind = "Keyword" ->
            [item EXCEPT !.insertText = Some(item.label \o " ")]
      [] item.kind = "Operator" -> resolvedOperator(item, useUnicode)
      [] OTHER -> item

\* The arrays and the heap after the object behind r has become item
catalogWith(r, item) ==
    IF r.array = "heap" THEN catalog
    ELSE [catalog EXCEPT ![r.array][r.index] = item]
heapWith(r, item) ==
    IF r.array = "heap" THEN [heap EXCEPT ![r.index] = item] ELSE heap

Call(fn, useUnicode, item) == [fn |-> fn, useUnicode |-> useUnicode, before |-> item]

-----------------------------------------------------------------------------
(* The requests considered *)

Heads ==
    {"", "1", "EXTENDS", "CONSTANT", "CONSTANTS", "RECURSIVE",
     "<1>", "<1>.", "<12>.4", "<8>.a", "<1><2>", "Foo == ", "Foo == /\\", "x \\",
     "x \\1", "x \\e1", "EXTENDS /\\"}

TailAlphabet == {"\\", " ", "e"}

RECURSIVE Tails(_)
Tails(n) ==
    IF n = 0 THEN {""}
    ELSE LET T == Tails(n - 1) IN T \cup {t \o c : t \in T, c \in TailAlphabet}

Prefixes == {h \o t : h \in Heads, t \in Tails(MaxTail)}

\* Text of line l after the cursor: l characters
RECURSIVE RestOfLine(_)
RestOfLine(l) == IF l = 0 THEN "" ELSE "e" \o RestOfLine(l - 1)

SymbolRecords ==
    {[name |-> "Foo", kind |-> "Field"], [name |-> "TRUE", kind |-> "Constant"]}

RECURSIVE SymbolLists(_)
SymbolLists(n) ==
    IF n = 0 THEN {<<>>}
    ELSE LET L == SymbolLists(n - 1) IN L \cup {Append(l, r) : l \in L, r \in SymbolRecords}

DocInfos ==
    [symbols : {None} \cup {Some(l) : l \in SymbolLists(MaxSymbols)},
     plusCal : BOOLEAN]

-----------------------------------------------------------------------------
(* The state machine *)

\* The instance made by new TlaCompletionItemProvider(docInfos) while the
\* setting has the given value
TlaCompletionItemProvider(setting) == [constructedWith |-> setting, used |-> FALSE]

\* A request that was served: its inputs, the list returned, and the items of
\* the list as they were when it was returned
Served(prevText, pos, info, list, shown) ==
    [prevText |-> prevText, position |-> pos, info |-> info,
     list |-> list, shown |-> shown]

Init ==
    /\ \E p \in Prefixes, l \in 0..MaxLine :
        /\ lineText = p \o RestOfLine(l)
        /\ position = Position(l, Len(p))
    /\ docInfo \in DocInfos
    /\ catalog = CatalogInit
    /\ heap = <<>>
    /\ response = None
    /\ configuration = FALSE
    /\ enableUnicodeAutocomplete = configuration
    /\ provider = TlaCompletionItemProvider(configuration)
    /\ served = <<>>
    /\ chosen = None
    /\ call = None
    /\ resolves = 0

provideCompletionItems ==
    /\ response = None
    /\ Len(served) < MaxRequests
    /\ LET prevText == getPrevText(lineText, position)
           result == completionsFor(prevText, position, docInfo, Len(heap))
       IN  /\ heap' = heap \o result.alloc
           /\ response' = Some(CompletionList(result.items, result.isIncomplete))
    /\ LET list == Get(response')
           shown == [i \in 1..Len(list.items) |->
                        IF list.items[i].array = "heap"
                        THEN heap'[list.items[i].index]
                        ELSE Deref(list.items[i])]
       IN  served' = Append(served, Served(getPrevText(lineText, position), position,
                                           docInfo, list, shown))
    /\ UNCHANGED <<lineText, position, docInfo, catalog,
                   enableUnicodeAutocomplete, chosen, call, resolves,
                   configuration, provider>>

Next == provideCompletionItems

Spec == Init /\ [][Next]_vars

-----------------------------------------------------------------------------
(* Requests on documents with one symbol of each kind *)

SymbolPrefixes == {"", "Foo == ", "<1> ", "x \\"}

OneSymbolLists == {<<[name |-> "Foo", kind |-> k]>> : k \in SymbolKind}

InitSymbols ==
    /\ \E p \in SymbolPrefixes :
        /\ lineText = p
        /\ position = Position(0, Len(p))
    /\ docInfo \in [symbols : {None} \cup {Some(l) : l \in OneSymbolLists},
                    plusCal : BOOLEAN]
    /\ catalog = CatalogInit
    /\ heap = <<>>
    /\ response = None
    /\ configuration = FALSE
    /\ enableUnicodeAutocomplete = configuration
    /\ provider = TlaCompletionItemProvider(configuration)
    /\ served = <<>>
    /\ chosen = None
    /\ call = None
    /\ resolves = 0

SpecSymbols == InitSymbols /\ [][Next]_vars

-----------------------------------------------------------------------------
(* Resolution of one item: the item is a catalog item, an operator item as *)
(* a request makes it, an operator item made by hand, or a symbol item.    *)

RequestOperatorItems == operatorItems(operatorRange("x \\e", Position(0, 4)))

HandMadeItems ==
    {CompletionItem(l, "Operator") : l \in {"\\in", "\\s", "\\times", "\\vDash"}}

SymbolNames == {"Foo", "LET", "\\in"}

ResolvableItems ==
    {RequestOperatorItems[i] : i \in 1..Len(RequestOperatorItems)}
    \cup HandMadeItems
    \cup {SymbolItem([name |-> n, kind |-> k]) : n \in SymbolNames, k \in SymbolKind}

\* The arrays whose items a response can hold
HandedOutArrays ==
    {"TLA_STARTING_KEYWORD_ITEMS", "TLA_PROOF_STARTING_KEYWORD_ITEMS",
     "TLA_OTHER_KEYWORD_ITEMS", "TLA_CONST_ITEMS", "TLA_STD_MODULE_ITEMS"}

CatalogRefs == UNION {{Ref(a, i) : i \in 1..Len(CatalogInit[a])} : a \in HandedOutArrays}

InitResolve ==
    /\ lineText = ""
    /\ position = Position(0, 0)
    /\ docInfo = [symbols |-> None, plusCal |-> FALSE]
    /\ catalog = CatalogInit
    /\ \/ heap = <<>> /\ \E r \in CatalogRefs : chosen = Some(r)
       \/ \E item \in ResolvableItems : heap = <<item>> /\ chosen = Some(Ref("heap", 1))
    /\ response = None
    /\ configuration \in BOOLEAN
    /\ enableUnicodeAutocomplete = configuration
    /\ provider = TlaCompletionItemProvider(configuration)
    /\ served = <<>>
    /\ call = None
    /\ resolves = 0

\* Variant: the setting is read again at each call
resolveCompletionItem_rereads ==
    /\ IsSome(chosen)
    /\ resolves < MaxResolves
    /\ LET r == Get(chosen)
           item == Deref(r)
           resolved == resolvedItem(item, configuration)
       IN  /\ catalog' = catalogWith(r, resolved)
           /\ heap' = heapWith(r, resolved)
           /\ call' = Some(Call("resolveCompletionItem", configuration, item))
    /\ resolves' = resolves + 1
    /\ provider' = [provider EXCEPT !.used = TRUE]
    /\ UNCHANGED <<lineText, position, docInfo, response,
                   enableUnicodeAutocomplete, chosen, configuration, served>>

resolveCompletionItem ==
    /\ IsSome(chosen)
    /\ resolves < MaxResolves
    /\ LET r == Get(chosen)
           item == Deref(r)
           resolved == resolvedItem(item, enableUnicodeAutocomplete)
       IN  /\ catalog' = catalogWith(r, resolved)
           /\ heap' = heapWith(r, resolved)
           /\ call' = Some(Call("resolveCompletionItem", enableUnicodeAutocomplete, item))
    /\ resolves' = resolves + 1
    /\ provider' = [provider EXCEPT !.used = TRUE]
    /\ UNCHANGED <<lineText, position, docInfo, response,
                   enableUnicodeAutocomplete, chosen, configuration, served>>

\* The exported function called directly on an operator item
resolveOperatorCompletion(useUnicode) ==
    /\ IsSome(chosen)
    /\ resolves < MaxResolves
    /\ Deref(Get(chosen)).kind = "Operator"
    /\ LET r == Get(chosen)
           item == Deref(r)
           resolved == resolvedOperator(item, useUnicode)
       IN  /\ catalog' = catalogWith(r, resolved)
           /\ heap' = heapWith(r, resolved)
           /\ call' = Some(Call("resolveOperatorCompletion", useUnicode, item))
    /\ resolves' = resolves + 1
    /\ UNCHANGED <<lineText, position, docInfo, response,
                   enableUnicodeAutocomplete, chosen, configuration, provider, served>>

NextResolve ==
    \/ resolveCompletionItem
    \/ \E useUnicode \in BOOLEAN : resolveOperatorCompletion(useUnicode)

SpecResolve == InitResolve /\ [][NextResolve]_vars

-----------------------------------------------------------------------------
(* A session: requests on a document that is edited between them, and     *)
(* items of the lists returned being resolved.                             *)

SessionPrefixes == {"", "x \\", "ab \\e"}

SessionSymbols ==
    <<[name |-> "LET", kind |-> "Operator"], [name |-> "\\in", kind |-> "Function"]>>

SessionDocInfo == [symbols |-> Some(SessionSymbols), plusCal |-> FALSE]

\* The labels of the items the user accepts
SelectableLabels == {"LET", "\\in"}

\* The items of the lists returned so far that the user may accept
SelectableRefs ==
    UNION {{served[k].list.items[i] :
                i \in {j \in 1..Len(served[k].shown) :
                          served[k].shown[j].label \in SelectableLabels}} :
            k \in 1..Len(served)}

InitSession ==
    /\ \E p \in SessionPrefixes :
        /\ lineText = p
        /\ position = Position(0, Len(p))
    /\ docInfo = SessionDocInfo
    /\ catalog = CatalogInit
    /\ heap = <<>>
    /\ response = None
    /\ configuration \in BOOLEAN
    /\ enableUnicodeAutocomplete = configuration
    /\ provider = TlaCompletionItemProvider(configuration)
    /\ served = <<>>
    /\ chosen = None
    /\ call = None
    /\ resolves = 0

\* The user types: the line under the cursor changes and the list shown is
\* dismissed
editDocument(p) ==
    /\ IsSome(response)
    /\ Len(served) < MaxRequests
    /\ lineText' = p
    /\ position' = Position(0, Len(p))
    /\ response' = None
    /\ UNCHANGED <<docInfo, catalog, heap, enableUnicodeAutocomplete, chosen, call,
                   resolves, configuration, provider, served>>

\* The user picks an item of a list returned earlier
selectItem(r) ==
    /\ resolves < MaxResolves
    /\ chosen # Some(r)
    /\ chosen' = Some(r)
    /\ UNCHANGED <<lineText, position, docInfo, catalog, heap, response,
                   enableUnicodeAutocomplete, call, resolves, configuration,
                   provider, served>>

NextSession ==
    \/ provideCompletionItems
    \/ \E p \in SessionPrefixes : editDocument(p)
    \/ \E r \in SelectableRefs : selectItem(r)
    \/ resolveCompletionItem

SpecSession == InitSession /\ [][NextSession]_vars

-----------------------------------------------------------------------------
(* The setting: it is changed and the provider is constructed anew while   *)
(* items are resolved.                                                     *)

InitSettings == InitResolve

\* The user changes the setting tlaplus.unicode.autocomplete
changeConfiguration ==
    /\ configuration' = ~configuration
    /\ UNCHANGED <<lineText, position, docInfo, catalog, heap, response,
                   enableUnicodeAutocomplete, chosen, call, resolves,
                   provider, served>>

\* A new provider instance is constructed and registered after a change of
\* the setting
constructProvider ==
    /\ provider.constructedWith # configuration
    /\ provider' = TlaCompletionItemProvider(configuration)
    /\ UNCHANGED <<lineText, position, docInfo, catalog, heap, response,
                   enableUnicodeAutocomplete, chosen, call, resolves,
                   configuration, served>>

NextSettings ==
    \/ resolveCompletionItem
    \/ changeConfiguration
    \/ constructProvider

SpecSettings == InitSettings /\ [][NextSettings]_vars

-----------------------------------------------------------------------------
(* Vocabulary of the properties, stated on the request and its response    *)
(* without the provider's own tests.                                       *)

\* The text of the line from its start up to the cursor
Prefix == SubSeq(lineText, 1, position.character)

Responded == IsSome(response)
Returned == Get(response)
Items == [i \in 1..Len(Returned.items) |-> Deref(Returned.items[i])]
ItemIndexes == 1..Len(Returned.items)
Symbols == IF IsSome(docInfo.symbols) THEN Get(docInfo.symbols) ELSE <<>>

Elems(seq) == {seq[i] : i \in 1..Len(seq)}

HasItemIn(its, label, kind) ==
    \E i \in 1..Len(its) : its[i].label = label /\ its[i].kind = kind

HasItem(label, kind) == HasItemIn(Items, label, kind)

\* One item of the kind per name, labelled lead + name, and no other item:
\* as many items as names, all of the kind, their labels pairwise different
\* and exactly the names with the lead before them
ExactlyTheItems(names, lead, kind) ==
    LET its == Items IN
    /\ Len(its) = Len(names)
    /\ \A i \in 1..Len(its) : its[i].kind = kind
    /\ {its[i].label : i \in 1..Len(its)} = {lead \o names[j] : j \in 1..Len(names)}
    /\ Cardinality({its[i].label : i \in 1..Len(its)}) = Len(its)

NoOperatorItem == LET its == Items IN \A i \in 1..Len(its) : its[i].kind # "Operator"

IsStartingKeywordItem(it) ==
    it.kind = "Keyword" /\ it.label \in Elems(TLA_STARTING_KEYWORDS)
IsProofKeywordItem(it) ==
    it.kind = "Keyword" /\ it.label \in Elems(TLA_PROOF_STARTING_KEYWORDS)
NoStartingKeywordItem ==
    LET its == Items IN \A i \in 1..Len(its) : ~IsStartingKeywordItem(its[i])
NoProofKeywordItem ==
    LET its == Items IN \A i \in 1..Len(its) : ~IsProofKeywordItem(its[i])

\* General keywords, the two constants and the symbols are all there; every
\* item that is no keyword is a constant or comes from a symbol.
HasGeneralContent ==
    LET its == Items IN
    /\ \A w \in Elems(TLA_OTHER_KEYWORDS) : HasItemIn(its, w, "Keyword")
    /\ \A c \in Elems(TLA_CONSTANTS) : HasItemIn(its, c, "Constant")
    /\ \A k \in 1..Len(Symbols) : \E i \in 1..Len(its) : its[i].label = Symbols[k].name
    /\ Cardinality({i \in 1..Len(its) : its[i].kind # "Keyword"})
         = Len(TLA_CONSTANTS) + Len(Symbols)

StartsWithImport(p) == startsWith(p, "EXTENDS")
StartsWithDeclaration(p) ==
    \/ startsWith(p, "CONSTANT")
    \/ startsWith(p, "CONSTANTS")
    \/ startsWith(p, "RECURSIVE")

\* Index of the last escape marker of p, 0 when there is none
LastMarker(p) ==
    LET M == {i \in 1..Len(p) : CharAt(p, i) = "\\"}
    IN  IF M = {} THEN 0 ELSE CHOOSE i \in M : \A j \in M : j <= i

\* p ends in the escape marker followed by zero or more word characters
EndsInMarkerAndWord(p) ==
    /\ LastMarker(p) > 0
    /\ \A k \in (LastMarker(p) + 1)..Len(p) : CharAt(p, k) \in WordChars

\* the last escape marker is the second character of the and-token
MarkerInAndToken(p) ==
    LastMarker(p) > 1 /\ CharAt(p, LastMarker(p) - 1) = "/"

OperatorCase(p) ==
    /\ Len(p) > 0
    /\ ~StartsWithImport(p)
    /\ ~StartsWithDeclaration(p)
    /\ EndsInMarkerAndWord(p)
    /\ ~MarkerInAndToken(p)

\* only whitespace followed by a partial identifier
LineStartShape(p) ==
    \E a \in 0..Len(p) :
        /\ \A k \in 1..a : CharAt(p, k) \in WhiteSpace
        /\ \A k \in (a + 1)..Len(p) : CharAt(p, k) \in Letters

\* optional whitespace, '<' digits '>', optionally '.' and alphanumeric
\* sub-labels, at least one whitespace character, a partial identifier
StepNumberShape(p) ==
    LET n == Len(p)
        Blank(i, j) == \A k \in i..j : CharAt(p, k) \in WhiteSpace
        \* p from index i on: at least one whitespace character, then letters
        Rest(i) ==
            \E d \in i..n :
                /\ Blank(i, d)
                /\ \A k \in (d + 1)..n : CharAt(p, k) \in Letters
        \* p from index i on: nothing, or '.' and alphanumeric characters
        SubLabelThenRest(i) ==
            \/ Rest(i)
            \/ /\ i <= n
               /\ CharAt(p, i) = "."
               /\ \E c \in i..n :
                    /\ \A k \in (i + 1)..c : CharAt(p, k) \in Letters \cup Digits
                    /\ Rest(c + 1)
    IN  \E a \in 0..n :
            /\ Blank(1, a)
            /\ a + 1 <= n
            /\ CharAt(p, a + 1) = "<"
            /\ \E b \in (a + 2)..n :
                /\ \A k \in (a + 2)..b : CharAt(p, k) \in Digits
                /\ b + 1 <= n
                /\ CharAt(p, b + 1) = ">"
                /\ SubLabelThenRest(b + 2)

-----------------------------------------------------------------------------
(* C1: a prefix that starts with EXTENDS yields exactly one Module item per *)
(* standard module and nothing else, whatever the symbols and the          *)
(* sub-block flag are.                                                     *)
C1_StdModulesAfterExtends ==
    (Responded /\ StartsWithImport(Prefix))
        => ExactlyTheItems(TLA_STD_MODULES, "", "Module")

C1_Witness ==
    /\ Responded
    /\ Prefix = "EXTENDS \\"
    /\ docInfo.plusCal
    /\ Len(Symbols) > 0
    /\ ExactlyTheItems(TLA_STD_MODULES, "", "Module")

(* C2: a prefix that starts with CONSTANT, CONSTANTS or RECURSIVE yields an *)
(* explicit response whose item list is empty and which is flagged         *)
(* complete.                                                               *)
C2_EmptyCompleteAfterDeclaration ==
    (Responded /\ StartsWithDeclaration(Prefix))
        => /\ Returned.items = <<>>
           /\ Returned.isIncomplete = FALSE

C2_Witness ==
    /\ Responded
    /\ Prefix = "RECURSIVE e"
    /\ Len(Symbols) > 0
    /\ Returned.items = <<>>

(* C3: a prefix ending in the escape marker and word characters, that does *)
(* not start with EXTENDS, CONSTANT or RECURSIVE and whose marker is not   *)
(* preceded by '/', yields exactly one Operator item per entry of          *)
(* TLA_OPERATORS, labelled marker + name, and no other item.               *)
C3_OnlyOperatorsAfterMarker ==
    (Responded /\ OperatorCase(Prefix))
        => ExactlyTheItems(TLA_OPERATORS, "\\", "Operator")

C3_Witness ==
    /\ Responded
    /\ Prefix = "x \\e1"
    /\ Len(Symbols) > 0
    /\ ExactlyTheItems(TLA_OPERATORS, "\\", "Operator")

\* Number of word characters at the end of p
TrailingWordCount(p) ==
    Cardinality({k \in 1..Len(p) : \A j \in k..Len(p) : CharAt(p, j) \in WordChars})

\* a non-word character stands between the last escape marker and the cursor
MarkerThenNonWord(p) ==
    /\ LastMarker(p) > 0
    /\ \E k \in (LastMarker(p) + 1)..Len(p) : CharAt(p, k) \notin WordChars

\* general keywords, constants and symbols and nothing else
IsGeneralOnly ==
    /\ HasGeneralContent
    /\ Len(Items) = Len(TLA_OTHER_KEYWORDS) + Len(TLA_CONSTANTS) + Len(Symbols)

(* C4: in the operator case every item carries a range on the cursor's    *)
(* line that starts at the column of the last escape marker and ends at   *)
(* the cursor column; it is one longer than the run of word characters    *)
(* typed after the marker.                                                *)
C4_RangeCoversMarker ==
    (Responded /\ OperatorCase(Prefix))
        => LET its == Items
               col == LastMarker(Prefix) - 1
               expected == [start |-> [line |-> position.line, character |-> col],
                            end |-> [line |-> position.line,
                                     character |-> position.character]]
           IN  /\ \A i \in 1..Len(its) : its[i].range = <<expected>>
               /\ position.character - col = 1 + TrailingWordCount(Prefix)

C4_Witness ==
    /\ Responded
    /\ Prefix = "x \\e1"
    /\ lineText # Prefix
    /\ position.line = 1
    /\ Len(Items) > 0
    /\ \A i \in ItemIndexes :
        /\ Items[i].range # <<>>
        /\ Items[i].range[1].start.character = 2
        /\ Items[i].range[1].end.character = 5

(* C5 as stated: whenever the last escape marker is preceded by '/', the  *)
(* result is a general bucket (general keywords, constants, symbols)      *)
(* without Operator items.                                                *)
C5_AsStated ==
    (Responded /\ MarkerInAndToken(Prefix))
        => (HasGeneralContent /\ NoOperatorItem)

(* C5: when the prefix does not start with EXTENDS, CONSTANT or RECURSIVE *)
(* and the last escape marker is preceded by '/', the result is a general *)
(* bucket (general keywords, constants, symbols) without Operator items,  *)
(* also when only word characters follow the marker.                      *)
C5_AndTokenIsNoOperator ==
    (/\ Responded
     /\ MarkerInAndToken(Prefix)
     /\ ~StartsWithImport(Prefix)
     /\ ~StartsWithDeclaration(Prefix))
        => (HasGeneralContent /\ NoOperatorItem)

C5_Witness ==
    /\ Responded
    /\ Prefix = "Foo == /\\e"
    /\ Len(Symbols) > 0
    /\ HasGeneralContent
    /\ NoOperatorItem

(* C6 as stated: whenever a non-word character follows the last escape    *)
(* marker before the cursor, the result is the general bucket without     *)
(* Operator items.                                                        *)
C6_AsStated ==
    (Responded /\ MarkerThenNonWord(Prefix))
        => (HasGeneralContent /\ NoOperatorItem)

(* C6: when the prefix does not start with EXTENDS, CONSTANT or RECURSIVE *)
(* and a non-word character follows the last escape marker before the     *)
(* cursor, the result is the general bucket without Operator items.       *)
C6_MarkerThenSpaceIsGeneral ==
    (/\ Responded
     /\ MarkerThenNonWord(Prefix)
     /\ ~StartsWithImport(Prefix)
     /\ ~StartsWithDeclaration(Prefix))
        => (HasGeneralContent /\ NoOperatorItem)

C6_Witness ==
    /\ Responded
    /\ Prefix = "x \\ e"
    /\ Len(Symbols) > 0
    /\ HasGeneralContent
    /\ NoOperatorItem

(* C7 as stated: outside a sub-block every prefix made of whitespace and a *)
(* partial identifier yields every starting keyword as a Keyword item and *)
(* no Operator item.                                                      *)
C7_AsStated ==
    (Responded /\ LineStartShape(Prefix) /\ ~docInfo.plusCal)
        => /\ \A w \in Elems(TLA_STARTING_KEYWORDS) : HasItem(w, "Keyword")
           /\ NoOperatorItem

(* C7: outside a sub-block every prefix made of whitespace and a partial  *)
(* identifier that does not start with EXTENDS, CONSTANT or RECURSIVE     *)
(* yields every starting keyword as a Keyword item and no Operator item.  *)
C7_StartingKeywordsAtLineStart ==
    (/\ Responded
     /\ LineStartShape(Prefix)
     /\ ~docInfo.plusCal
     /\ ~StartsWithImport(Prefix)
     /\ ~StartsWithDeclaration(Prefix))
        => /\ \A w \in Elems(TLA_STARTING_KEYWORDS) : HasItem(w, "Keyword")
           /\ NoOperatorItem

C7_Witness ==
    /\ Responded
    /\ Prefix = " e"
    /\ ~docInfo.plusCal
    /\ \A w \in Elems(TLA_STARTING_KEYWORDS) : HasItem(w, "Keyword")

(* C8: outside a sub-block a prefix made of a proof-step number,          *)
(* whitespace and a partial identifier yields every proof-starting        *)
(* keyword as a Keyword item together with the general keywords,          *)
(* constants and symbols, and no starting-keyword item.                   *)
C8_ProofKeywordsAfterStepNumber ==
    (Responded /\ StepNumberShape(Prefix) /\ ~docInfo.plusCal)
        => /\ \A w \in Elems(TLA_PROOF_STARTING_KEYWORDS) : HasItem(w, "Keyword")
           /\ HasGeneralContent
           /\ NoStartingKeywordItem

C8_Witness ==
    /\ Responded
    /\ Prefix = "<8>.a e"
    /\ ~docInfo.plusCal
    /\ Len(Symbols) > 0
    /\ HasItem("QED", "Keyword")

(* C9: inside a sub-block, when the prefix neither starts with EXTENDS,   *)
(* CONSTANT or RECURSIVE nor is an operator prefix, the result holds the  *)
(* general keywords, constants and symbols only: no starting keyword and  *)
(* no proof-starting keyword, whatever the prefix looks like.             *)
C9_GeneralOnlyInsideSubBlock ==
    (/\ Responded
     /\ docInfo.plusCal
     /\ ~StartsWithImport(Prefix)
     /\ ~StartsWithDeclaration(Prefix)
     /\ ~(EndsInMarkerAndWord(Prefix) /\ ~MarkerInAndToken(Prefix)))
        => /\ IsGeneralOnly
           /\ NoStartingKeywordItem
           /\ NoProofKeywordItem

C9_Witness ==
    /\ Responded
    /\ docInfo.plusCal
    /\ Prefix = "<1> e"
    /\ IsGeneralOnly

(* C10: the keyword tests come before the operator test: a prefix that    *)
(* starts with EXTENDS and ends in marker + word characters yields the    *)
(* standard modules only, one that starts with CONSTANT or RECURSIVE and  *)
(* ends so yields the empty list; neither yields an Operator item.        *)
C10_KeywordRulesBeforeOperatorRule ==
    (Responded /\ EndsInMarkerAndWord(Prefix) /\ ~MarkerInAndToken(Prefix))
        => /\ StartsWithImport(Prefix)
              => (ExactlyTheItems(TLA_STD_MODULES, "", "Module") /\ NoOperatorItem)
           /\ StartsWithDeclaration(Prefix)
              => (Returned.items = <<>> /\ NoOperatorItem)

C10_Witness ==
    /\ Responded
    /\ Prefix = "EXTENDS\\e"
    /\ ExactlyTheItems(TLA_STD_MODULES, "", "Module")

-----------------------------------------------------------------------------
(* The general buckets *)

\* none of the rules 1-3 applies to p
GeneralCase(p) ==
    /\ ~StartsWithImport(p)
    /\ ~StartsWithDeclaration(p)
    /\ ~(EndsInMarkerAndWord(p) /\ ~MarkerInAndToken(p))

\* The completion kind the fixed table gives to a semantic kind
CompletionKindOf(semanticKind) ==
    IF semanticKind \in {"Field", "Variable", "Function", "Method", "Constant"}
    THEN semanticKind
    ELSE IF semanticKind \in {"Namespace", "Module"} THEN "Module"
    ELSE "Text"

CountItems(its, label, kind) ==
    Cardinality({i \in 1..Len(its) : its[i].label = label /\ its[i].kind = kind})

\* Number of symbols that give an item with this label and kind
CountSymbols(label, kind) ==
    Cardinality({k \in 1..Len(Symbols) :
        Symbols[k].name = label /\ CompletionKindOf(Symbols[k].kind) = kind})

\* Number of catalog constants that give an item with this label and kind
CountConstants(label, kind) ==
    IF kind = "Constant" /\ label \in Elems(TLA_CONSTANTS) THEN 1 ELSE 0

(* C11: every result of a general bucket holds every general keyword as a  *)
(* Keyword item, TRUE and FALSE as Constant items and one item per symbol; *)
(* a result without starting and proof-starting keywords (GeneralOnly)     *)
(* holds nothing else.                                                     *)
C11_GeneralBucketContent ==
    (Responded /\ GeneralCase(Prefix))
        => LET its == Items IN
           /\ \A w \in Elems(TLA_OTHER_KEYWORDS) : HasItemIn(its, w, "Keyword")
           /\ \A c \in Elems(TLA_CONSTANTS) : HasItemIn(its, c, "Constant")
           /\ \A k \in 1..Len(Symbols) :
                LET l == Symbols[k].name
                    kd == CompletionKindOf(Symbols[k].kind)
                IN  CountItems(its, l, kd) = CountSymbols(l, kd) + CountConstants(l, kd)
           /\ (NoStartingKeywordItem /\ NoProofKeywordItem)
                => Len(its) = Len(TLA_OTHER_KEYWORDS) + Len(TLA_CONSTANTS) + Len(Symbols)

C11_Witness ==
    /\ Responded
    /\ Prefix = "Foo == e"
    /\ Len(Symbols) = 2
    /\ HasItem("Foo", "Field")
    /\ HasItem("BOOLEAN", "Keyword")
    /\ Len(Items) = Len(TLA_OTHER_KEYWORDS) + Len(TLA_CONSTANTS) + 2

\* Where an item of the response comes from
FromArrays(i, arrays) == Returned.items[i].array \in arrays
LineStartArrays == {"TLA_STARTING_KEYWORD_ITEMS", "TLA_PROOF_STARTING_KEYWORD_ITEMS"}

\* Position of the class of the i-th item when line-start keywords come first
RankKeywordsFirst(i) ==
    IF FromArrays(i, LineStartArrays) THEN 0
    ELSE IF FromArrays(i, {"TLA_OTHER_KEYWORD_ITEMS"}) THEN 1
    ELSE IF FromArrays(i, {"TLA_CONST_ITEMS"}) THEN 2
    ELSE IF FromArrays(i, {"heap"}) THEN 3
    ELSE 4

\* Position of the class of the i-th item when line-start keywords come last
RankKeywordsLast(i) ==
    IF FromArrays(i, {"TLA_OTHER_KEYWORD_ITEMS"}) THEN 0
    ELSE IF FromArrays(i, {"TLA_CONST_ITEMS"}) THEN 1
    ELSE IF FromArrays(i, {"heap"}) THEN 2
    ELSE IF FromArrays(i, LineStartArrays) THEN 3
    ELSE 4

(* C12 as stated: in every general-bucket result the starting or           *)
(* proof-starting keyword items come first, then the general keywords,    *)
(* then the constants, then the symbol-derived items.                     *)
C12_AsStated ==
    (Responded /\ GeneralCase(Prefix))
        => \A i \in 1..(Len(Returned.items) - 1) :
            RankKeywordsFirst(i) <= RankKeywordsFirst(i + 1)

(* C12: in every general-bucket result the general keywords come first,   *)
(* then the constants, then the symbol-derived items, and the starting or *)
(* proof-starting keyword items (when present) come last.                 *)
C12_LineStartKeywordsLast ==
    (Responded /\ GeneralCase(Prefix))
        => \A i \in 1..(Len(Returned.items) - 1) :
            RankKeywordsLast(i) <= RankKeywordsLast(i + 1)

C12_Witness ==
    /\ Responded
    /\ Prefix = " e"
    /\ ~docInfo.plusCal
    /\ Len(Symbols) = 2
    /\ Items[1].label = "LET"
    /\ Items[Len(Items)].label = "RECURSIVE"
    /\ Items[Len(Items)].kind = "Keyword"

(* C13: every list returned, in every bucket and for every request, is    *)
(* reported as complete (isIncomplete = false).                           *)
C13_AlwaysComplete ==
    Responded => Returned.isIncomplete = FALSE

C13_Witness ==
    /\ Responded
    /\ OperatorCase(Prefix)
    /\ Len(Items) = Len(TLA_OPERATORS)
    /\ Returned.isIncomplete = FALSE


-----------------------------------------------------------------------------
(* Resolution *)

Called == IsSome(call)
LastCall == Get(call)
ChosenItem == Deref(Get(chosen))

\* The label without its first character, the escape marker
BareName(label) == SubSeq(label, 2, Len(label))
HasGlyph(name) ==
    \E i \in 1..Len(TLA_UNICODE_OPERATORS) : TLA_UNICODE_OPERATORS[i][1] = name

\* text is what the Unicode policy prescribes for the label under the preference
IsPolicyText(text, label, useUnicode) ==
    IF useUnicode /\ HasGlyph(BareName(label))
    THEN \E i \in 1..Len(TLA_UNICODE_OPERATORS) :
            /\ TLA_UNICODE_OPERATORS[i][1] = BareName(label)
            /\ text = TLA_UNICODE_OPERATORS[i][2] \o " "
    ELSE text = ("\\" \o BareName(label)) \o " "

CatalogOperatorLabels == {"\\" \o TLA_OPERATORS[i] : i \in 1..Len(TLA_OPERATORS)}

(* C14: after resolveOperatorCompletion(item, useUnicode) the item's        *)
(* insertText is the glyph of the label's bare name plus one space when     *)
(* useUnicode is true and the name has a glyph, and the escape marker, the  *)
(* bare name and one space in every other case.                             *)
C14_OperatorResolutionPolicy ==
    (Called /\ LastCall.fn = "resolveOperatorCompletion") =>
        /\ IsSome(ChosenItem.insertText)
        /\ IsPolicyText(Get(ChosenItem.insertText), LastCall.before.label,
                        LastCall.useUnicode)

\* an operator without glyph resolved with the Unicode preference on
C14_Witness ==
    /\ Called
    /\ LastCall.fn = "resolveOperatorCompletion"
    /\ LastCall.useUnicode
    /\ ~HasGlyph(BareName(LastCall.before.label))
    /\ ChosenItem.insertText = Some("\\s ")

(* C15: an item of the operator catalog, resolved by either function under  *)
(* either preference, has an insertText that is set, is not 'undefined ',   *)
(* and consists of at least one character other than a space followed by    *)
(* exactly one space.                                                       *)
C15_CatalogOperatorTextWellFormed ==
    (Called /\ LastCall.before.kind = "Operator"
            /\ LastCall.before.label \in CatalogOperatorLabels) =>
        /\ IsSome(ChosenItem.insertText)
        /\ LET text == Get(ChosenItem.insertText)
           IN  /\ Len(text) >= 2
               /\ SubSeq(text, Len(text), Len(text)) = " "
               /\ SubSeq(text, Len(text) - 1, Len(text) - 1) # " "
               /\ text # "undefined "

\* a catalog operator resolved to its glyph
C15_Witness ==
    /\ Called
    /\ LastCall.before.label = "\\in"
    /\ LastCall.before.kind = "Operator"
    /\ LastCall.useUnicode
    /\ ChosenItem.insertText = Some("U2208 ")

(* C16: a resolve call on a Keyword or Operator item that follows a resolve *)
(* call with the same preference leaves the item's insertText as it was.    *)
C16_ResolutionIdempotent ==
    [][(/\ Called
        /\ call' # None
        /\ Get(call').useUnicode = LastCall.useUnicode
        /\ LastCall.before.kind \in {"Keyword", "Operator"})
       => ChosenItem'.insertText = ChosenItem.insertText]_vars

\* a keyword item resolved again
C16_Witness ==
    /\ Called
    /\ resolves >= 2
    /\ LastCall.before.kind = "Keyword"
    /\ IsSome(LastCall.before.insertText)
    /\ ChosenItem.insertText = Some(ChosenItem.label \o " ")

(* C17: after resolveCompletionItem a Keyword item has insertText = label + *)
(* one space, an Operator item has the text of the Unicode policy under the *)
(* process-wide preference, and an item of any other kind is as it was      *)
(* before the call, its insertText unset.                                   *)
C17_ResolveDispatchesOnKind ==
    (Called /\ LastCall.fn = "resolveCompletionItem") =>
        CASE LastCall.before.kind = "Keyword" ->
                ChosenItem.insertText = Some(LastCall.before.label \o " ")
          [] LastCall.before.kind = "Operator" ->
                /\ IsSome(ChosenItem.insertText)
                /\ IsPolicyText(Get(ChosenItem.insertText), LastCall.before.label,
                                enableUnicodeAutocomplete)
          [] OTHER ->
                /\ ChosenItem = LastCall.before
                /\ ChosenItem.insertText = None

\* a keyword item after its first resolution
C17_Witness ==
    /\ Called
    /\ LastCall.fn = "resolveCompletionItem"
    /\ LastCall.before.kind = "Keyword"
    /\ LastCall.before.insertText = None
    /\ ChosenItem.insertText = Some("LET ")


-----------------------------------------------------------------------------
(* The symbol bridge *)

\* The items of a general-bucket response made for the request, in the
\* order of the response
SymbolRefs == SelectSeq(Returned.items, LAMBDA r : r.array = "heap")
SymbolDerived == [i \in 1..Len(SymbolRefs) |-> Deref(SymbolRefs[i])]

CompletionKinds == {"Field", "Variable", "Function", "Method", "Module", "Constant", "Text"}

(* C18: in a general-bucket result the item of a symbol has the completion  *)
(* kind of the fixed table: Field, Variable, Function, Method and Constant  *)
(* keep their name, Namespace and Module give Module, every other semantic  *)
(* kind gives Text; every semantic kind gets a kind.                        *)
C18_KindTable ==
    (Responded /\ GeneralCase(Prefix)) =>
        LET sd == SymbolDerived IN
        /\ Len(sd) = Len(Symbols)
        /\ \A i \in 1..Len(sd) :
            /\ sd[i].kind \in CompletionKinds
            /\ sd[i].kind =
                 (CASE Symbols[i].kind = "Field" -> "Field"
                    [] Symbols[i].kind = "Variable" -> "Variable"
                    [] Symbols[i].kind = "Function" -> "Function"
                    [] Symbols[i].kind = "Method" -> "Method"
                    [] Symbols[i].kind = "Namespace" -> "Module"
                    [] Symbols[i].kind = "Module" -> "Module"
                    [] Symbols[i].kind = "Constant" -> "Constant"
                    [] OTHER -> "Text")

\* a namespace symbol offered as a Module item
C18_Witness ==
    /\ Responded
    /\ GeneralCase(Prefix)
    /\ Symbols = <<[name |-> "Foo", kind |-> "Namespace"]>>
    /\ HasItem("Foo", "Module")

(* C19: in a general-bucket result the items made for the symbols are as    *)
(* many as the symbols, the i-th one is a separate object carrying the name *)
(* and the mapped kind of the i-th symbol, equal records included; without  *)
(* a symbol list there is none.                                             *)
C19_SymbolsOneToOne ==
    (Responded /\ GeneralCase(Prefix)) =>
        LET refs == SymbolRefs
            sd == SymbolDerived
        IN  /\ Len(sd) = Len(Symbols)
            /\ \A i \in 1..Len(sd) :
                /\ sd[i].label = Symbols[i].name
                /\ sd[i].kind = CompletionKindOf(Symbols[i].kind)
            /\ \A i, j \in 1..Len(refs) : i # j => refs[i] # refs[j]
            /\ (docInfo.symbols = None) => Len(sd) = 0

\* two equal symbol records offered as two items
C19_Witness ==
    /\ Responded
    /\ GeneralCase(Prefix)
    /\ Symbols = <<[name |-> "Foo", kind |-> "Field"], [name |-> "Foo", kind |-> "Field"]>>
    /\ Len(SymbolRefs) = 2
    /\ CountItems(Items, "Foo", "Field") = 2

LabelKindPairs(its) == {<<its[i].label, its[i].kind>> : i \in 1..Len(its)}
DuplicateFree(its) == Cardinality(LabelKindPairs(its)) = Len(its)

\* The symbols give pairwise different (name, completion kind) pairs, none
\* of them a constant of the catalog
SymbolsCollisionFree ==
    /\ \A i, j \in 1..Len(Symbols) :
        (i # j) => <<Symbols[i].name, CompletionKindOf(Symbols[i].kind)>>
                     # <<Symbols[j].name, CompletionKindOf(Symbols[j].kind)>>
    /\ \A i \in 1..Len(Symbols) :
        ~(CompletionKindOf(Symbols[i].kind) = "Constant"
          /\ Symbols[i].name \in Elems(TLA_CONSTANTS))

(* C20 as stated: no result holds two items with the same label and kind.   *)
C20_AsStated == Responded => DuplicateFree(Items)

(* C20: a result holds no two items with the same label and kind whenever   *)
(* the symbols give pairwise different (name, completion kind) pairs none   *)
(* of which is a constant of the catalog; the results that are not general  *)
(* buckets never hold two such items.                                       *)
C20_DuplicateFreeForDistinctSymbols ==
    (Responded /\ (SymbolsCollisionFree \/ ~GeneralCase(Prefix)))
        => DuplicateFree(Items)

\* a line-start result with a symbol next to the catalog items
C20_Witness ==
    /\ Responded
    /\ GeneralCase(Prefix)
    /\ Symbols = <<[name |-> "Foo", kind |-> "Field"]>>
    /\ SymbolsCollisionFree
    /\ HasItem("Foo", "Field")
    /\ HasItem("VARIABLES", "Keyword")
    /\ DuplicateFree(Items)


-----------------------------------------------------------------------------
(* Prefixes that fit no pattern, and the shapes of the line-start rules *)

\* optional whitespace, '<' digits '>', a run of characters of labelChars,
\* at least one whitespace character, letters
StepShapeWith(p, labelChars) ==
    LET n == Len(p) IN
    \E a \in 0..n :
        /\ \A k \in 1..a : CharAt(p, k) \in WhiteSpace
        /\ a + 1 <= n
        /\ CharAt(p, a + 1) = "<"
        /\ \E b \in (a + 2)..n :
            /\ \A k \in (a + 2)..b : CharAt(p, k) \in Digits
            /\ b + 1 <= n
            /\ CharAt(p, b + 1) = ">"
            /\ \E c \in (b + 1)..n :
                /\ \A k \in (b + 2)..c : CharAt(p, k) \in labelChars
                /\ \E d \in (c + 1)..n :
                    /\ \A k \in (c + 1)..d : CharAt(p, k) \in WhiteSpace
                    /\ \A k \in (d + 1)..n : CharAt(p, k) \in Letters

\* '.' and alphanumeric sub-labels after the step number
SubLabelChars == {"."} \cup Letters \cup Digits
\* the characters the provider accepts after the step number
AcceptedLabelChars == {"<", ">", "."} \cup Letters \cup Digits

HasStartingKeywordItem ==
    LET its == Items IN \E i \in 1..Len(its) : IsStartingKeywordItem(its[i])
HasProofKeywordItem ==
    LET its == Items IN \E i \in 1..Len(its) : IsProofKeywordItem(its[i])
NoModuleItem ==
    LET its == Items IN \A i \in 1..Len(its) :
        ~(its[i].kind = "Module" /\ its[i].label \in Elems(TLA_STD_MODULES))

\* A prefix none of the rules of the classifier is about
Unrecognised(p) ==
    /\ p # ""
    /\ GeneralCase(p)
    /\ ~LineStartShape(p)
    /\ ~StepShapeWith(p, AcceptedLabelChars)

(* C21 as stated: an empty prefix, and a prefix no rule is about, yield the *)
(* general keywords, constants and symbols only.                            *)
C21_AsStated ==
    (Responded /\ (Prefix = "" \/ Unrecognised(Prefix)))
        => /\ IsGeneralOnly
           /\ NoStartingKeywordItem
           /\ NoProofKeywordItem
           /\ NoOperatorItem

(* C21: a prefix no rule is about yields the general keywords, constants   *)
(* and symbols only; a request with an empty prefix can always be served   *)
(* and yields them too, with no proof-starting keyword, operator or module *)
(* item, and with the starting keywords added exactly when the cursor is   *)
(* outside a sub-block.                                                    *)
C21_EmptyPrefixIsLineStart ==
    /\ (~Responded /\ Prefix = "") => ENABLED provideCompletionItems
    /\ (Responded /\ Unrecognised(Prefix))
        => IsGeneralOnly /\ NoStartingKeywordItem /\ NoProofKeywordItem /\ NoOperatorItem
    /\ (Responded /\ Prefix = "")
        => /\ HasGeneralContent
           /\ NoProofKeywordItem
           /\ NoOperatorItem
           /\ NoModuleItem
           /\ IF docInfo.plusCal
              THEN IsGeneralOnly /\ NoStartingKeywordItem
              ELSE \A w \in Elems(TLA_STARTING_KEYWORDS) : HasItem(w, "Keyword")

\* the empty prefix outside a sub-block
C21_Witness ==
    /\ Responded
    /\ Prefix = ""
    /\ ~docInfo.plusCal
    /\ HasItem("EXTENDS", "Keyword")
    /\ HasItem("LET", "Keyword")

C26_StartingKeywordsOnlyAtLineStart ==
    (Responded /\ HasStartingKeywordItem)
        => LineStartShape(Prefix) /\ ~docInfo.plusCal

\* something precedes the partial identifier
C26_Witness ==
    /\ Responded
    /\ Prefix = "Foo == e"
    /\ ~docInfo.plusCal
    /\ NoStartingKeywordItem
    /\ HasItem("LET", "Keyword")

(* C27 as stated: a result holds a proof-starting keyword item only if the  *)
(* prefix is a step number, '<' digits '>', an optional run of '.' and      *)
(* alphanumeric characters, whitespace and a partial identifier.            *)
C27_AsStated ==
    (Responded /\ HasProofKeywordItem) => StepShapeWith(Prefix, SubLabelChars)

(* C27: a result holds a proof-starting keyword item only if the cursor is  *)
(* outside a sub-block and the prefix is optional whitespace, '<' digits    *)
(* '>', a run of the characters '<', '>', '.', digits and letters, at least *)
(* one whitespace character and a run of letters.                           *)
C27_ProofKeywordsOnlyAfterStepNumber ==
    (Responded /\ HasProofKeywordItem)
        => StepShapeWith(Prefix, AcceptedLabelChars) /\ ~docInfo.plusCal

\* a step number with no whitespace after it
C27_Witness ==
    /\ Responded
    /\ Prefix = "<1>."
    /\ ~docInfo.plusCal
    /\ NoProofKeywordItem
    /\ HasItem("LET", "Keyword")

\* The text a resolve call gives to an item of this label and kind
IsResolvedText(text, label, kind, useUnicode) ==
    CASE kind = "Keyword" -> text = Some(label \o " ")
      [] kind = "Operator" -> IsSome(text) /\ IsPolicyText(Get(text), label, useUnicode)
      [] OTHER -> text = None

(* C30: a resolve call leaves the label, the kind and the range of the item *)
(* as they were, and the insertText after the call is the one that the      *)
(* label, the kind and the preference determine, whatever insertText and    *)
(* range the item had.                                                      *)
C30_ResolveChangesOnlyInsertText ==
    Called =>
        /\ ChosenItem.label = LastCall.before.label
        /\ ChosenItem.kind = LastCall.before.kind
        /\ ChosenItem.range = LastCall.before.range
        /\ IsResolvedText(ChosenItem.insertText, ChosenItem.label, ChosenItem.kind,
                          LastCall.useUnicode)

\* an item with a range and an earlier insertText resolved under the other preference
C30_Witness ==
    /\ Called
    /\ LastCall.before.kind = "Operator"
    /\ IsSome(LastCall.before.range)
    /\ IsSome(LastCall.before.insertText)
    /\ LastCall.before.insertText # ChosenItem.insertText
    /\ ChosenItem.range = LastCall.before.range


-----------------------------------------------------------------------------
(* The setting, the catalog and the lists of a session *)

(* C22: no step changes the captured preference, and every resolution of an *)
(* operator item by resolveCompletionItem renders it under the captured     *)
(* value, whatever the setting has become and whenever the provider was     *)
(* constructed.                                                             *)
C22_PreferenceCapturedOnce ==
    [][/\ enableUnicodeAutocomplete' = enableUnicodeAutocomplete
       /\ (resolves' # resolves /\ ChosenItem.kind = "Operator")
            => /\ IsSome(ChosenItem'.insertText)
               /\ IsPolicyText(Get(ChosenItem'.insertText), ChosenItem.label,
                               enableUnicodeAutocomplete)]_vars

\* an operator resolved to its glyph by a provider constructed after the
\* setting was switched off
C22_Witness ==
    /\ Called
    /\ LastCall.before.kind = "Operator"
    /\ LastCall.before.label = "\\in"
    /\ enableUnicodeAutocomplete
    /\ ~configuration
    /\ provider.constructedWith = configuration
    /\ provider.used
    /\ ChosenItem.insertText = Some("U2208 ")

(* C23: no item of the module-level arrays ever changes; none acquires an   *)
(* insertText or a range.                                                   *)
C23_CatalogImmutable ==
    \A a \in DOMAIN catalog : \A i \in 1..Len(catalog[a]) :
        /\ catalog[a][i].insertText = None
        /\ catalog[a][i].range = None
        /\ catalog[a][i].label = CatalogInit[a][i].label
        /\ catalog[a][i].kind = CatalogInit[a][i].kind

(* C24: two requests with the same prefix, sub-block flag and symbols get   *)
(* lists that are equal item for item in label, kind, range and insertText  *)
(* as returned, and insertText is unset in every list as returned.          *)
C24_RequestsIndependent ==
    \A j \in 1..Len(served) :
        /\ \A i \in 1..Len(served[j].shown) : served[j].shown[i].insertText = None
        /\ \A k \in 1..(j - 1) :
            (served[k].prevText = served[j].prevText /\ served[k].info = served[j].info)
                => served[k].shown = served[j].shown

\* The range of the items of an operator request: from its last escape
\* marker to its cursor
OwnRange(req) ==
    [start |-> [line |-> req.position.line, character |-> LastMarker(req.prevText) - 1],
     end |-> req.position]

OperatorRequests == {k \in 1..Len(served) : OperatorCase(served[k].prevText)}
RefsOfRequest(k) == {served[k].list.items[i] : i \in 1..Len(served[k].list.items)}

\* Every item of every operator list has the range of its own request, and no
\* two operator lists share an item
OwnRangesKept ==
    /\ \A k \in OperatorRequests : \A r \in RefsOfRequest(k) :
        Deref(r).range = Some(OwnRange(served[k]))
    /\ \A k, j \in OperatorRequests :
        (k # j) => RefsOfRequest(k) \cap RefsOfRequest(j) = {}

(* C28: after every step each item of each operator list has the range     *)
(* computed for its own request, no two operator lists share an item, and  *)
(* a step changes no item of an operator list other than the chosen one.   *)
C28_OperatorItemsFreshPerRequest ==
    [][/\ OwnRangesKept'
       /\ \A k \in OperatorRequests : \A r \in RefsOfRequest(k) :
            (chosen # Some(r)) => Deref(r)' = Deref(r)]_vars

\* two operator requests with different marker columns, an item of the
\* second resolved, its counterpart in the first untouched
C28_Witness ==
    /\ Len(served) = 2
    /\ served[1].prevText = "x \\"
    /\ served[2].prevText = "ab \\e"
    /\ Called
    /\ IsSome(chosen)
    /\ Get(chosen) \in RefsOfRequest(2)
    /\ IsSome(ChosenItem.insertText)
    /\ ChosenItem.range = Some([start |-> [line |-> 0, character |-> 3],
                                end |-> [line |-> 0, character |-> 5]])
    /\ \A r \in RefsOfRequest(1) :
        /\ Deref(r).insertText = None
        /\ Deref(r).range = Some([start |-> [line |-> 0, character |-> 2],
                                  end |-> [line |-> 0, character |-> 3]])

(* C29: the items made for the symbols of a general-bucket list never have *)
(* kind Keyword or Operator, and they stay as they were returned, with     *)
(* insertText unset, whatever is resolved.                                 *)
C29_SymbolItemsNeverResolved ==
    \A k \in 1..Len(served) :
        GeneralCase(served[k].prevText) =>
            \A i \in 1..Len(served[k].list.items) :
                LET r == served[k].list.items[i] IN
                (r.array = "heap") =>
                    /\ Deref(r).kind \notin {"Keyword", "Operator"}
                    /\ Deref(r).insertText = None
                    /\ Deref(r) = served[k].shown[i]

\* the item of a symbol named like a keyword after resolveCompletionItem
C29_Witness ==
    /\ Called
    /\ Get(chosen).array = "heap"
    /\ LastCall.fn = "resolveCompletionItem"
    /\ LastCall.before.label = "LET"
    /\ LastCall.before.kind = "Text"
    /\ ChosenItem.insertText = None
    /\ \E k \in 1..Len(served) :
        /\ GeneralCase(served[k].prevText)
        /\ Get(chosen) \in RefsOfRequest(k)

====
